---------------------------- MODULE Spec2Model ----------------------------
(***************************************************************************)
(* Model of the two report generators of mortenvp/scripts:                 *)
(*   src/github_monthly_report.py  (closed PRs/issues of a calendar month) *)
(*   src/github_weekly_report.py   (a user's PRs/issues of one week)       *)
(*                                                                         *)
(* Representation of values                                                *)
(*   datetime        [ord |-> proleptic Gregorian ordinal, sec |-> second  *)
(*                    of the day], as Python's datetime compares them      *)
(*   date argument   [given |-> BOOLEAN, text |-> fields of the string     *)
(*                    split at "-"]; a field is a natural number or        *)
(*                    NonNumeric; text = <<>> is the empty string          *)
(*   timestamp text  [tag, f]: tag "null" is JSON null, "empty" the empty  *)
(*                    string, "text" the zero padded text                  *)
(*                    "YYYY-MM-DDThh:mm:ssZ" with the fields f =           *)
(*                    <<Y, M, D, h, m, s>>, "other" any other text (for    *)
(*                    instance one with fractional seconds)                *)
(*   repository name a sequence of character codes (compared as strings)   *)
(***************************************************************************)
EXTENDS Integers, Sequences, FiniteSets, TLC

\* ------------------------------------------------------------------------
\* Bounds of the model
\* ------------------------------------------------------------------------
\* repositories configured in a monthly run
MaxRepos == 2
\* items in a response of a weekly search
MaxItems == 2
\* items in a response given to a fetch function on its own
MaxFnItems == 2

\* ------------------------------------------------------------------------
\* Python's datetime: calendar, ordinals, comparison, timedelta arithmetic
\* ------------------------------------------------------------------------
MINYEAR == 1
MAXYEAR == 9999

IsLeap(y) == (y % 4 = 0) /\ ((y % 100 # 0) \/ (y % 400 = 0))

DaysInMonth(y, m) ==
    IF m = 2 THEN (IF IsLeap(y) THEN 29 ELSE 28)
    ELSE IF m \in {4, 6, 9, 11} THEN 30 ELSE 31

DaysBeforeYear(y) ==
    (y - 1) * 365 + ((y - 1) \div 4) - ((y - 1) \div 100) + ((y - 1) \div 400)

RECURSIVE DaysBeforeMonth(_, _)
DaysBeforeMonth(y, m) ==
    IF m <= 1 THEN 0 ELSE DaysBeforeMonth(y, m - 1) + DaysInMonth(y, m - 1)

Ymd2Ord(y, m, d) == DaysBeforeYear(y) + DaysBeforeMonth(y, m) + d

MaxOrd == Ymd2Ord(MAXYEAR, 12, 31)

\* datetime(year, month, day, ...) raises ValueError outside these ranges
ValidDate(y, m, d) ==
    /\ y \in MINYEAR..MAXYEAR
    /\ m \in 1..12
    /\ d \in 1..DaysInMonth(y, m)

DateTime(y, m, d, secs) == [ord |-> Ymd2Ord(y, m, d), sec |-> secs]

NoDate == [ord |-> 0, sec |-> 0]

\* datetime.weekday(): Monday is 0
Weekday(dt) == (dt.ord + 6) % 7

DtLess(a, b) == (a.ord < b.ord) \/ (a.ord = b.ord /\ a.sec < b.sec)
DtLeq(a, b) == (a.ord < b.ord) \/ (a.ord = b.ord /\ a.sec <= b.sec)

\* start_date <= t < end_date
InRange(t, s, e) == DtLeq(s, t) /\ DtLess(t, e)

\* datetime +/- timedelta(days=n) raises OverflowError outside the range
CanShift(dt, n) == (dt.ord + n) \in 1..MaxOrd
Shift(dt, n) == [ord |-> dt.ord + n, sec |-> dt.sec]

\* ------------------------------------------------------------------------
\* Command line date arguments
\* ------------------------------------------------------------------------
NonNumeric == 0 - 1

NoArg == [given |-> FALSE, text |-> <<>>]
Arg(fields) == [given |-> TRUE, text |-> fields]

\* int(field) succeeds
IsInt(f) == f # NonNumeric

\* parse_month: "year, month = map(int, month_str.split("-"))", then
\* datetime(year, month, 1) and the first day of the next month; every
\* ValueError prints the invalid-format message and exits with code 1.
parse_month(month_str) ==
    LET t == month_str.text IN
    IF Len(t) # 2 \/ ~IsInt(t[1]) \/ ~IsInt(t[2])
    THEN [kind |-> "exit", start |-> NoDate, end |-> NoDate]
    ELSE LET year == t[1]
             month == t[2]
         IN IF ~ValidDate(year, month, 1)
            THEN [kind |-> "exit", start |-> NoDate, end |-> NoDate]
            ELSE IF month = 12
            THEN IF ~ValidDate(year + 1, 1, 1)
                 THEN [kind |-> "exit", start |-> NoDate, end |-> NoDate]
                 ELSE [kind |-> "ok",
                       start |-> DateTime(year, month, 1, 0),
                       end |-> DateTime(year + 1, 1, 1, 0)]
            ELSE [kind |-> "ok",
                  start |-> DateTime(year, month, 1, 0),
                  end |-> DateTime(year, month + 1, 1, 0)]

\* datetime.strptime(week_str, "%Y-%m-%d") succeeds
IsDateText(t) ==
    /\ Len(t) = 3
    /\ \A i \in 1..3 : IsInt(t[i])
    /\ ValidDate(t[1], t[2], t[3])

\* "if week_str:" is false for None and for the empty string
Truthy(week_str) == week_str.given /\ Len(week_str.text) > 0

\* Monday of the week of the provided date / of the week before today
WeekStart(week_str, today) ==
    IF Truthy(week_str)
    THEN LET provided_date == DateTime(week_str.text[1], week_str.text[2],
                                       week_str.text[3], 0)
         IN Shift(provided_date, 0 - Weekday(provided_date))
    ELSE Shift(today, 0 - (Weekday(today) + 7))

\* get_week_range: kind "exit" is the caught ValueError (message, exit 1),
\* kind "raise" an OverflowError of the timedelta arithmetic, not caught.
get_week_range(week_str, today) ==
    IF Truthy(week_str) /\ ~IsDateText(week_str.text)
    THEN [kind |-> "exit", start |-> NoDate, end |-> NoDate]
    ELSE IF ~Truthy(week_str) /\ ~CanShift(today, 0 - (Weekday(today) + 7))
    THEN [kind |-> "raise", start |-> NoDate, end |-> NoDate]
    ELSE LET start_date == WeekStart(week_str, today)
         IN IF ~CanShift(start_date, 7)
            THEN [kind |-> "raise", start |-> NoDate, end |-> NoDate]
            ELSE [kind |-> "ok", start |-> start_date,
                  end |-> Shift(start_date, 7)]

\* ------------------------------------------------------------------------
\* Item timestamps ("closedAt", "createdAt") as the client prints them
\* ------------------------------------------------------------------------
NoFields == <<0, 0, 0, 0, 0, 0>>
TsNull == [tag |-> "null", f |-> NoFields]
TsEmpty == [tag |-> "empty", f |-> NoFields]
TsOther == [tag |-> "other", f |-> NoFields]
Ts(y, mo, d, h, mi, s) == [tag |-> "text", f |-> <<y, mo, d, h, mi, s>>]

\* the value gh search prints for a null closedAt
Sentinel == Ts(1, 1, 1, 0, 0, 0)

\* item.get("closedAt") is truthy
Present(ts) == ts.tag \notin {"null", "empty"}

\* ts.startswith("0001-01-01")
StartsWithSentinel(ts) ==
    ts.tag = "text" /\ ts.f[1] = 1 /\ ts.f[2] = 1 /\ ts.f[3] = 1

\* datetime.strptime(ts, "%Y-%m-%dT%H:%M:%SZ") returns (else ValueError)
Parses(ts) ==
    /\ ts.tag = "text"
    /\ ValidDate(ts.f[1], ts.f[2], ts.f[3])
    /\ ts.f[4] \in 0..23 /\ ts.f[5] \in 0..59 /\ ts.f[6] \in 0..59

strptime(ts) ==
    DateTime(ts.f[1], ts.f[2], ts.f[3],
             ts.f[4] * 3600 + ts.f[5] * 60 + ts.f[6])

\* comparison of two timestamp texts as Python compares the strings:
\* field by field, the fields being zero padded to a fixed width
RECURSIVE LexLess(_, _)
LexLess(a, b) ==
    IF Len(a) = 0 THEN Len(b) > 0
    ELSE IF Len(b) = 0 THEN FALSE
    ELSE IF Head(a) # Head(b) THEN Head(a) < Head(b)
    ELSE LexLess(Tail(a), Tail(b))

\* ------------------------------------------------------------------------
\* Responses of the external client and the fetch functions
\* ------------------------------------------------------------------------
Item(n, created, closed, repo) ==
    [number |-> n, createdAt |-> created, closedAt |-> closed,
     repository |-> repo]

\* rc: exit status; body: "list" (JSON array of items), "object" (JSON of
\* another shape), "notjson" (text json.loads rejects)
Response(rc, body, items) == [rc |-> rc, body |-> body, items |-> items]

Returned(v, m) == [kind |-> "ok", value |-> v, msg |-> m, exc |-> "none"]
Raised(e) == [kind |-> "raise", value |-> <<>>, msg |-> "none", exc |-> e]

\* the monthly loop "for pr in prs: if pr.get("closedAt"): ..."
KeepClosed(it, start_date, end_date) ==
    /\ Present(it.closedAt)
    /\ InRange(strptime(it.closedAt), start_date, end_date)

FilterClosed(items, start_date, end_date) ==
    IF \E i \in 1..Len(items) :
           Present(items[i].closedAt) /\ ~Parses(items[i].closedAt)
    THEN Raised("ValueError")
    ELSE Returned(SelectSeq(items,
                     LAMBDA it : KeepClosed(it, start_date, end_date)),
                  "none")

\* subprocess.run without check=True: the exit status is not looked at
fetch_closed_prs_unchecked(resp, start_date, end_date) ==
    IF resp.body = "notjson" THEN Returned(<<>>, "Error parsing PR data")
    ELSE IF resp.body = "object" THEN Raised("AttributeError")
    ELSE FilterClosed(resp.items, start_date, end_date)

fetch_closed_prs(resp, start_date, end_date) ==
    IF resp.rc # 0 THEN Returned(<<>>, "Error fetching PRs")
    ELSE IF resp.body = "notjson" THEN Returned(<<>>, "Error parsing PR data")
    ELSE IF resp.body = "object" THEN Raised("AttributeError")
    ELSE FilterClosed(resp.items, start_date, end_date)

fetch_closed_issues(resp, start_date, end_date) ==
    IF resp.rc # 0 THEN Returned(<<>>, "Error fetching issues")
    ELSE IF resp.body = "notjson"
    THEN Returned(<<>>, "Error parsing issue data")
    ELSE IF resp.body = "object" THEN Raised("AttributeError")
    ELSE FilterClosed(resp.items, start_date, end_date)

\* the weekly loop: include_item is set by createdAt or by closedAt
CreatedInRange(it, start_date, end_date) ==
    /\ Present(it.createdAt)
    /\ InRange(strptime(it.createdAt), start_date, end_date)

ClosedInRange(it, start_date, end_date) ==
    /\ Present(it.closedAt)
    /\ ~StartsWithSentinel(it.closedAt)
    /\ InRange(strptime(it.closedAt), start_date, end_date)

include_item(it, start_date, end_date) ==
    \/ CreatedInRange(it, start_date, end_date)
    \/ ClosedInRange(it, start_date, end_date)

FilterActivity(items, start_date, end_date) ==
    IF \E i \in 1..Len(items) :
           \/ Present(items[i].createdAt) /\ ~Parses(items[i].createdAt)
           \/ /\ Present(items[i].closedAt)
              /\ ~StartsWithSentinel(items[i].closedAt)
              /\ ~Parses(items[i].closedAt)
    THEN Raised("ValueError")
    ELSE Returned(SelectSeq(items,
                     LAMBDA it : include_item(it, start_date, end_date)),
                  "none")

search_user_activity(resp, start_date, end_date) ==
    IF resp.rc # 0 THEN Returned(<<>>, "Error searching")
    ELSE IF resp.body = "notjson" THEN Returned(<<>>, "Error parsing data")
    ELSE IF resp.body = "object" THEN Raised("AttributeError")
    ELSE FilterActivity(resp.items, start_date, end_date)

\* ------------------------------------------------------------------------
\* Grouping and ordering of the weekly detail section
\* ------------------------------------------------------------------------
\* sorted(xs, key=lambda x: x["createdAt"], reverse=True): stable, so an
\* item goes behind every item whose key is not smaller than its own
RECURSIVE InsertByCreated(_, _)
InsertByCreated(sorted, x) ==
    IF sorted = <<>> THEN <<x>>
    ELSE IF LexLess(Head(sorted).createdAt.f, x.createdAt.f)
    THEN <<x>> \o sorted
    ELSE <<Head(sorted)>> \o InsertByCreated(Tail(sorted), x)

\* the lists printed in the order of the response (the sort left out)
KeepResponseOrder(xs) == xs

RECURSIVE SortByCreatedDesc(_)
SortByCreatedDesc(xs) ==
    IF xs = <<>> THEN <<>>
    ELSE InsertByCreated(SortByCreatedDesc(SubSeq(xs, 1, Len(xs) - 1)),
                         xs[Len(xs)])

\* sorted(repo_data.keys())
RECURSIVE SortedNames(_)
SortedNames(S) ==
    IF S = {} THEN <<>>
    ELSE LET least == CHOOSE n \in S : \A o \in S \ {n} : LexLess(n, o)
         IN <<least>> \o SortedNames(S \ {least})

RepoNames(items) == {items[i].repository : i \in 1..Len(items)}

OfRepo(items, name) == SelectSeq(items, LAMBDA it : it.repository = name)

\* the dictionary built by the two grouping loops of the weekly report
GroupByRepo(ps, is) ==
    [name \in RepoNames(ps) \cup RepoNames(is) |->
        [prs |-> OfRepo(ps, name), issues |-> OfRepo(is, name)]]

Section(name, ps, is) == [repo |-> name, prs |-> ps, issues |-> is]

WeeklyDetail(data) ==
    LET names == SortedNames(DOMAIN data)
    IN [k \in 1..Len(names) |->
           Section(names[k], SortByCreatedDesc(data[names[k]].prs),
                   SortByCreatedDesc(data[names[k]].issues))]

\* the monthly detail loop: configured order, empty repositories skipped
RECURSIVE MonthlyDetail(_, _)
MonthlyDetail(rs, data) ==
    IF rs = <<>> THEN <<>>
    ELSE LET repo == Head(rs)
             rest == MonthlyDetail(Tail(rs), data)
         IN IF data[repo].prs = <<>> /\ data[repo].issues = <<>>
            THEN rest
            ELSE <<Section(repo, data[repo].prs, data[repo].issues)>> \o rest

\* ------------------------------------------------------------------------
\* State
\* ------------------------------------------------------------------------
VARIABLES
    prog,          \* "monthly" or "weekly": which script runs
    pc,            \* position of the run
    argv,          \* the month / --week command line argument
    now,           \* datetime.now()
    gh,            \* the external client: "missing", "unauth" or "ok"
    repos,         \* REPOSITORIES
    start_date,    \* the date range of the report
    end_date,
    idx,           \* position of the monthly fetch loop in repos
    raw,           \* responses of the fetch queries made so far, in order
    prs,           \* weekly: result of the pull request search
    issues,        \* weekly: result of the issue search
    repo_data,     \* per repository lists
    total_prs,     \* monthly counters
    total_issues,
    summary,       \* the three totals of the summary block, once printed
    detail,        \* the detail section, once printed
    calls,         \* invocations of the external client made so far
    out,           \* messages printed so far
    exitcode,      \* exit status of the process, NoExit while it runs
    uncaught,      \* exception that left main, "none" otherwise
    fn,            \* function application under test (SpecFn)
    ret            \* its result (SpecFn)

vars == <<prog, pc, argv, now, gh, repos, start_date, end_date, idx, raw,
          prs, issues, repo_data, total_prs, total_issues, summary, detail,
          calls, out, exitcode, uncaught, fn, ret>>

runVars == <<prog, pc, argv, now, gh, repos, start_date, end_date, idx, raw,
             prs, issues, repo_data, total_prs, total_issues, summary,
             detail, calls, out, exitcode, uncaught>>

NoExit == 0 - 1

\* ------------------------------------------------------------------------
\* Inputs of a run
\* ------------------------------------------------------------------------
REPOSITORIES ==
    <<"steinwurf/plumr", "steinwurf/raft", "steinwurf/kodo",
      "steinwurf/dummynet", "steinwurf/abacus", "steinwurf/poke",
      "steinwurf/cmake-toolchains", "steinwurf/ouroboros",
      "steinwurf/plumr-release-testing", "steinwurf/npdbg",
      "steinwurf/slide", "steinwurf/rely", "steinwurf/fifi">>

SeqsUpTo(S, n) == UNION {[1..k -> S] : k \in 0..n}

\* the items of a response carry their position as their number
Numbered(q) == [i \in 1..Len(q) |-> [q[i] EXCEPT !.number = i]]

\* a query fails with a nonzero exit (whatever it printed: here one item)
\* or with output json.loads rejects
FailedResponses(sample) ==
    {Response(1, "list", Numbered(<<sample>>)), Response(0, "notjson", <<>>)}

ListResponses(catalog, n) ==
    {Response(0, "list", Numbered(q)) : q \in SeqsUpTo(catalog, n)}

Responses(catalog, sample, n) ==
    FailedResponses(sample) \cup {Response(0, "object", <<>>)}
        \cup ListResponses(catalog, n)

Failed(resp) == resp.rc # 0 \/ resp.body = "notjson"

\* monthly runs
MonthArgv == {NoArg, Arg(<<2026, 2>>), Arg(<<2026, 13>>)}

MonthItem(closed) == Item(0, TsNull, closed, <<>>)

ClosedMid == Ts(2026, 2, 10, 12, 0, 0)
ClosedLast == Ts(2026, 2, 28, 23, 59, 59)
ClosedNextMonth == Ts(2026, 3, 1, 0, 0, 0)

MonthSample == MonthItem(ClosedMid)

\* item lists a repository query answers with: none, one item of the
\* month, one of the next month, two and three items out of time order,
\* and one whose closedAt is not in the expected format
MonthlyLists ==
    {<<>>,
     <<MonthItem(ClosedMid)>>,
     <<MonthItem(ClosedNextMonth)>>,
     <<MonthItem(ClosedLast), MonthItem(ClosedMid)>>,
     <<MonthItem(ClosedMid), MonthItem(ClosedNextMonth),
       MonthItem(ClosedLast)>>,
     <<MonthItem(TsOther)>>}

MonthlyResponses ==
    FailedResponses(MonthSample) \cup {Response(0, "object", <<>>)}
        \cup {Response(0, "list", Numbered(q)) : q \in MonthlyLists}

\* weekly runs; the clock reads Wednesday 2026-01-14 10:00:00
Clock == DateTime(2026, 1, 14, 36000)

WeekArgv ==
    {NoArg, Arg(<<>>), Arg(<<2026, 1, 7>>), Arg(<<2026, 2, 30>>),
     Arg(<<9999, 12, 31>>)}

RepoA == <<1>>
RepoAB == <<1, 2>>
RepoB == <<2>>

WeekSample == Item(0, Ts(2026, 1, 6, 9, 0, 0), Sentinel, RepoB)

WeeklyItems ==
    {WeekSample,
     Item(0, Ts(2026, 1, 8, 9, 0, 0), Ts(2026, 1, 9, 9, 0, 0), RepoA),
     Item(0, Ts(2025, 12, 30, 9, 0, 0), Ts(2026, 1, 11, 23, 59, 59), RepoB),
     Item(0, Ts(2026, 1, 8, 9, 0, 0), TsNull, RepoAB),
     Item(0, TsNull, Ts(2026, 1, 9, 9, 0, 0), RepoA),
     Item(0, TsOther, TsNull, RepoB)}

Init ==
    /\ prog \in {"monthly", "weekly"}
    /\ pc = "start"
    /\ argv \in (IF prog = "monthly" THEN MonthArgv ELSE WeekArgv)
    /\ now = Clock
    /\ gh \in {"missing", "unauth", "ok"}
    /\ repos \in (IF prog = "monthly"
                  THEN {SubSeq(REPOSITORIES, 1, n) : n \in 0..MaxRepos}
                  ELSE {<<>>})
    /\ start_date = NoDate
    /\ end_date = NoDate
    /\ idx = 1
    /\ raw = <<>>
    /\ prs = <<>>
    /\ issues = <<>>
    /\ repo_data = <<>>
    /\ total_prs = 0
    /\ total_issues = 0
    /\ summary = <<>>
    /\ detail = <<>>
    /\ calls = <<>>
    /\ out = <<>>
    /\ exitcode = NoExit
    /\ uncaught = "none"
    /\ fn = [name |-> "none"]
    /\ ret = [kind |-> "none"]

\* ------------------------------------------------------------------------
\* Ways a run ends
\* ------------------------------------------------------------------------
\* sys.exit(code) after printing msg
Exit(msg, code) ==
    /\ out' = Append(out, msg)
    /\ exitcode' = code
    /\ pc' = "exited"
    /\ uncaught' = "none"

\* an exception no handler catches: traceback, exit status 1
Crash(exc) ==
    /\ out' = out
    /\ exitcode' = 1
    /\ pc' = "exited"
    /\ uncaught' = exc

\* ------------------------------------------------------------------------
\* main() of both scripts
\* ------------------------------------------------------------------------
\* parse_arguments: month is a required positional (argparse exits with
\* status 2 when it is missing), --week is optional
ParseArguments ==
    /\ pc = "start"
    /\ IF prog = "monthly" /\ ~argv.given
       THEN Exit("usage", 2)
       ELSE /\ pc' = "check_gh"
            /\ UNCHANGED <<out, exitcode, uncaught>>
    /\ UNCHANGED <<prog, argv, now, gh, repos, start_date, end_date, idx,
                   raw, prs, issues, repo_data, total_prs, total_issues,
                   summary, detail, calls, fn, ret>>

\* check_gh_installed: runs "gh auth status"; FileNotFoundError is caught
CheckGhInstalled ==
    /\ pc = "check_gh"
    /\ calls' = Append(calls, "gh auth status")
    /\ IF gh # "ok"
       THEN Exit("gh not installed or not authenticated", 1)
       ELSE /\ pc' = (IF prog = "monthly" THEN "check_repos" ELSE "get_user")
            /\ UNCHANGED <<out, exitcode, uncaught>>
    /\ UNCHANGED <<prog, argv, now, gh, repos, start_date, end_date, idx,
                   raw, prs, issues, repo_data, total_prs, total_issues,
                   summary, detail, fn, ret>>

\* monthly: "if not REPOSITORIES"
CheckRepositories ==
    /\ pc = "check_repos"
    /\ IF repos = <<>>
       THEN Exit("no repositories configured", 1)
       ELSE /\ pc' = "range"
            /\ UNCHANGED <<out, exitcode, uncaught>>
    /\ UNCHANGED <<prog, argv, now, gh, repos, start_date, end_date, idx,
                   raw, prs, issues, repo_data, total_prs, total_issues,
                   summary, detail, calls, fn, ret>>

\* weekly: get_current_user runs "gh api user"; a nonzero exit is caught
GetCurrentUser ==
    /\ pc = "get_user"
    /\ calls' = Append(calls, "gh api user")
    /\ \E rc \in {0, 1} :
          IF rc # 0
          THEN Exit("Error fetching current user", 1)
          ELSE /\ pc' = "range"
               /\ UNCHANGED <<out, exitcode, uncaught>>
    /\ UNCHANGED <<prog, argv, now, gh, repos, start_date, end_date, idx,
                   raw, prs, issues, repo_data, total_prs, total_issues,
                   summary, detail, fn, ret>>

\* ------------------------------------------------------------------------
\* generate_report of the monthly script
\* ------------------------------------------------------------------------
\* "start_date, end_date = parse_month(month_str)" and the banner
MonthlyRange ==
    /\ pc = "range" /\ prog = "monthly"
    /\ LET r == parse_month(argv)
       IN IF r.kind = "exit"
          THEN /\ Exit("Invalid month format", 1)
               /\ UNCHANGED <<start_date, end_date>>
          ELSE /\ start_date' = r.start
               /\ end_date' = r.end
               /\ out' = Append(out, "banner")
               /\ pc' = "fetch_prs"
               /\ UNCHANGED <<exitcode, uncaught>>
    /\ UNCHANGED <<prog, argv, now, gh, repos, idx, raw, prs, issues,
                   repo_data, total_prs, total_issues, summary, detail,
                   calls, fn, ret>>

Printed(o, r) == IF r.msg = "none" THEN o ELSE Append(o, r.msg)

EmptyEntry == [prs |-> <<>>, issues |-> <<>>]

\* repo_data is a defaultdict: a missing key reads as the empty entry
Entry(data, repo) == IF repo \in DOMAIN data THEN data[repo] ELSE EmptyEntry

\* "prs = fetch_closed_prs(...); repo_data[repo]["prs"] = prs;
\*  total_prs += len(prs)" for the repository at idx
FetchClosedPrs ==
    /\ pc = "fetch_prs"
    /\ \E resp \in MonthlyResponses :
          LET repo == repos[idx]
              r == fetch_closed_prs(resp, start_date, end_date)
          IN /\ calls' = Append(calls, "gh pr list")
             /\ raw' = Append(raw, resp)
             /\ IF r.kind = "raise"
                THEN /\ Crash(r.exc)
                     /\ UNCHANGED <<repo_data, total_prs>>
                ELSE /\ repo_data' =
                          (repo :> [Entry(repo_data, repo)
                                      EXCEPT !.prs = r.value]) @@ repo_data
                     /\ total_prs' = total_prs + Len(r.value)
                     /\ out' = Printed(Append(out, "Fetching data"), r)
                     /\ pc' = "fetch_issues"
                     /\ UNCHANGED <<exitcode, uncaught>>
    /\ UNCHANGED <<prog, argv, now, gh, repos, start_date, end_date, idx,
                   prs, issues, total_issues, summary, detail, fn, ret>>

\* "issues = fetch_closed_issues(...); repo_data[repo]["issues"] = issues;
\*  total_issues += len(issues)", then the next repository
FetchClosedIssues ==
    /\ pc = "fetch_issues"
    /\ \E resp \in MonthlyResponses :
          LET repo == repos[idx]
              r == fetch_closed_issues(resp, start_date, end_date)
          IN /\ calls' = Append(calls, "gh issue list")
             /\ raw' = Append(raw, resp)
             /\ IF r.kind = "raise"
                THEN /\ Crash(r.exc)
                     /\ UNCHANGED <<repo_data, total_issues, idx>>
                ELSE /\ repo_data' =
                          (repo :> [Entry(repo_data, repo)
                                      EXCEPT !.issues = r.value]) @@ repo_data
                     /\ total_issues' = total_issues + Len(r.value)
                     /\ out' = Printed(out, r)
                     /\ idx' = idx + 1
                     /\ pc' = (IF idx < Len(repos) THEN "fetch_prs"
                               ELSE "summary")
                     /\ UNCHANGED <<exitcode, uncaught>>
    /\ UNCHANGED <<prog, argv, now, gh, repos, start_date, end_date,
                   prs, issues, total_prs, summary, detail, fn, ret>>

\* the summary block, the detail loop and the closing banner; main
\* returns, exit status 0
MonthlyReport ==
    /\ pc = "summary" /\ prog = "monthly"
    /\ summary' = <<total_prs, total_issues, total_prs + total_issues>>
    /\ detail' = MonthlyDetail(repos, repo_data)
    /\ out' = out \o <<"summary", "detail", "complete">>
    /\ pc' = "done"
    /\ exitcode' = 0
    /\ UNCHANGED <<prog, argv, now, gh, repos, start_date, end_date, idx,
                   raw, prs, issues, repo_data, total_prs, total_issues,
                   calls, uncaught, fn, ret>>

\* ------------------------------------------------------------------------
\* generate_report of the weekly script
\* ------------------------------------------------------------------------
\* "start_date, end_date, week_description = get_week_range(week_str)"
WeeklyRange ==
    /\ pc = "range" /\ prog = "weekly"
    /\ LET r == get_week_range(argv, now)
       IN IF r.kind = "exit"
          THEN /\ Exit("Invalid date format", 1)
               /\ UNCHANGED <<start_date, end_date>>
          ELSE IF r.kind = "raise"
          THEN /\ Crash("OverflowError")
               /\ UNCHANGED <<start_date, end_date>>
          ELSE /\ start_date' = r.start
               /\ end_date' = r.end
               /\ out' = out \o <<"banner", "Fetching your activity">>
               /\ pc' = "search_prs"
               /\ UNCHANGED <<exitcode, uncaught>>
    /\ UNCHANGED <<prog, argv, now, gh, repos, idx, raw, prs, issues,
                   repo_data, total_prs, total_issues, summary, detail,
                   calls, fn, ret>>

\* prs = search_user_activity(username, start_date, end_date, "pr")
SearchPrs ==
    /\ pc = "search_prs"
    /\ \E resp \in Responses(WeeklyItems, WeekSample, MaxItems) :
          LET r == search_user_activity(resp, start_date, end_date)
          IN /\ calls' = Append(calls, "gh search prs")
             /\ raw' = Append(raw, resp)
             /\ IF r.kind = "raise"
                THEN /\ Crash(r.exc)
                     /\ UNCHANGED prs
                ELSE /\ prs' = r.value
                     /\ out' = Printed(out, r)
                     /\ pc' = "search_issues"
                     /\ UNCHANGED <<exitcode, uncaught>>
    /\ UNCHANGED <<prog, argv, now, gh, repos, start_date, end_date, idx,
                   issues, repo_data, total_prs, total_issues, summary,
                   detail, fn, ret>>

\* issues = search_user_activity(username, start_date, end_date, "issue")
SearchIssues ==
    /\ pc = "search_issues"
    /\ \E resp \in Responses(WeeklyItems, WeekSample, MaxItems) :
          LET r == search_user_activity(resp, start_date, end_date)
          IN /\ calls' = Append(calls, "gh search issues")
             /\ raw' = Append(raw, resp)
             /\ IF r.kind = "raise"
                THEN /\ Crash(r.exc)
                     /\ UNCHANGED issues
                ELSE /\ issues' = r.value
                     /\ out' = Printed(out, r)
                     /\ pc' = "summary"
                     /\ UNCHANGED <<exitcode, uncaught>>
    /\ UNCHANGED <<prog, argv, now, gh, repos, start_date, end_date, idx,
                   prs, repo_data, total_prs, total_issues, summary,
                   detail, fn, ret>>

\* an included item without a createdAt text makes strptime raise in the
\* detail loop (TypeError for null, ValueError for the empty string)
RenderRaises(items) ==
    \E i \in 1..Len(items) : ~Present(items[i].createdAt)

\* the summary block, grouping, the detail loop and the closing banner
WeeklyReport ==
    /\ pc = "summary" /\ prog = "weekly"
    /\ summary' = <<Len(prs), Len(issues), Len(prs) + Len(issues)>>
    /\ repo_data' = GroupByRepo(prs, issues)
    /\ IF RenderRaises(prs) \/ RenderRaises(issues)
       THEN /\ out' = Append(out, "summary")
            /\ exitcode' = 1
            /\ pc' = "exited"
            /\ uncaught' = "TypeError"
            /\ UNCHANGED detail
       ELSE /\ detail' = WeeklyDetail(repo_data')
            /\ out' = (IF DOMAIN repo_data' = {}
                       THEN out \o <<"summary", "No activity found",
                                     "complete">>
                       ELSE out \o <<"summary", "detail", "complete">>)
            /\ pc' = "done"
            /\ exitcode' = 0
            /\ UNCHANGED uncaught
    /\ UNCHANGED <<prog, argv, now, gh, repos, start_date, end_date, idx,
                   raw, prs, issues, total_prs, total_issues, calls, fn, ret>>

Next ==
    \/ ParseArguments
    \/ CheckGhInstalled
    \/ CheckRepositories
    \/ GetCurrentUser
    \/ MonthlyRange
    \/ FetchClosedPrs
    \/ FetchClosedIssues
    \/ MonthlyReport
    \/ WeeklyRange
    \/ SearchPrs
    \/ SearchIssues
    \/ WeeklyReport

Spec == Init /\ [][Next]_vars

\* ------------------------------------------------------------------------
\* The functions applied to inputs of their own (specification SpecFn)
\* ------------------------------------------------------------------------
NoResponse == Response(0, "list", <<>>)

Call(name, arg, today, s, e, resp) ==
    [name |-> name, arg |-> arg, today |-> today, start |-> s, end |-> e,
     resp |-> resp]

Pending == [kind |-> "none", start |-> NoDate, end |-> NoDate,
            value |-> <<>>, msg |-> "none", exc |-> "none"]

RangeResult(r) == [kind |-> r.kind, start |-> r.start, end |-> r.end,
                   value |-> <<>>, msg |-> "none", exc |-> "none"]

FetchResult(r) == [kind |-> r.kind, start |-> NoDate, end |-> NoDate,
                   value |-> r.value, msg |-> r.msg, exc |-> r.exc]

FnYears == {1, 1900, 2000, 2024, 2026, 9998, 9999}

FnMonthArgs ==
    {Arg(<<y, m>>) : y \in FnYears, m \in 0..13}
        \cup {Arg(<<>>), Arg(<<2026>>), Arg(<<2026, 1, 5>>),
              Arg(<<NonNumeric, 1>>), Arg(<<2026, NonNumeric>>),
              Arg(<<0, 1>>), Arg(<<10000, 1>>)}

FnWeekArgs ==
    {Arg(<<y, m, d>>) : y \in {1, 2024, 2026, 9999}, m \in {1, 2, 12},
                        d \in 0..32}
        \cup {Arg(<<2026, 1>>), Arg(<<2026, 1, NonNumeric>>),
              Arg(<<2026, 13, 1>>), Arg(<<0, 1, 1>>)}

\* two weeks of wall clock readings at four times of the day
FnClocks ==
    {DateTime(2026, 1, d, t) : d \in 5..18, t \in {0, 1, 36000, 86399}}

FnMonthRanges == {parse_month(Arg(<<2026, 2>>)), parse_month(Arg(<<1, 1>>))}

FnWeekRanges ==
    {get_week_range(Arg(<<2026, 1, 7>>), Clock),
     get_week_range(Arg(<<1, 1, 3>>), Clock),
     get_week_range(NoArg, Clock)}

FnClosedMonthly ==
    {TsNull, TsEmpty, TsOther, Sentinel,
     Ts(1, 1, 31, 23, 59, 59), Ts(1, 2, 1, 0, 0, 0),
     Ts(2026, 1, 31, 23, 59, 59), Ts(2026, 2, 1, 0, 0, 0),
     Ts(2026, 2, 28, 23, 59, 59), Ts(2026, 3, 1, 0, 0, 0)}

FnMonthlyItems == {MonthItem(c) : c \in FnClosedMonthly}

FnCreatedWeekly ==
    {TsNull, TsOther, Ts(1, 1, 1, 0, 0, 0),
     Ts(2026, 1, 4, 23, 59, 59), Ts(2026, 1, 5, 0, 0, 0),
     Ts(2026, 1, 11, 23, 59, 59), Ts(2026, 1, 12, 0, 0, 0)}

FnClosedWeekly ==
    {TsNull, TsOther, Sentinel, Ts(1, 1, 1, 12, 0, 0),
     Ts(2026, 1, 5, 0, 0, 0), Ts(2026, 1, 11, 23, 59, 59),
     Ts(2026, 1, 12, 0, 0, 0)}

FnWeeklyItems ==
    {Item(0, c, d, RepoA) : c \in FnCreatedWeekly, d \in FnClosedWeekly}

FnCalls ==
    {Call("parse_month", a, Clock, NoDate, NoDate, NoResponse) :
        a \in FnMonthArgs}
    \cup {Call("get_week_range", a, Clock, NoDate, NoDate, NoResponse) :
        a \in FnWeekArgs}
    \cup {Call("get_week_range", a, t, NoDate, NoDate, NoResponse) :
        a \in {NoArg, Arg(<<>>)}, t \in FnClocks}
    \cup {Call(f, NoArg, Clock, r.start, r.end, resp) :
        f \in {"fetch_closed_prs", "fetch_closed_issues"},
        r \in FnMonthRanges,
        resp \in Responses(FnMonthlyItems, MonthSample, MaxFnItems)}
    \cup {Call("search_user_activity", NoArg, Clock, r.start, r.end, resp) :
        r \in FnWeekRanges,
        resp \in Responses(FnWeeklyItems, WeekSample, MaxFnItems)}

InitFn ==
    /\ prog = "none"
    /\ pc = "idle"
    /\ argv = NoArg
    /\ now = Clock
    /\ gh = "ok"
    /\ repos = <<>>
    /\ start_date = NoDate
    /\ end_date = NoDate
    /\ idx = 1
    /\ raw = <<>>
    /\ prs = <<>>
    /\ issues = <<>>
    /\ repo_data = <<>>
    /\ total_prs = 0
    /\ total_issues = 0
    /\ summary = <<>>
    /\ detail = <<>>
    /\ calls = <<>>
    /\ out = <<>>
    /\ exitcode = NoExit
    /\ uncaught = "none"
    /\ fn \in FnCalls
    /\ ret = Pending

ApplyParseMonth ==
    /\ fn.name = "parse_month" /\ ret.kind = "none"
    /\ ret' = RangeResult(parse_month(fn.arg))
    /\ UNCHANGED <<runVars, fn>>

ApplyGetWeekRange ==
    /\ fn.name = "get_week_range" /\ ret.kind = "none"
    /\ ret' = RangeResult(get_week_range(fn.arg, fn.today))
    /\ UNCHANGED <<runVars, fn>>

ApplyFetchClosedPrs ==
    /\ fn.name = "fetch_closed_prs" /\ ret.kind = "none"
    /\ ret' = FetchResult(fetch_closed_prs(fn.resp, fn.start, fn.end))
    /\ UNCHANGED <<runVars, fn>>

ApplyFetchClosedIssues ==
    /\ fn.name = "fetch_closed_issues" /\ ret.kind = "none"
    /\ ret' = FetchResult(fetch_closed_issues(fn.resp, fn.start, fn.end))
    /\ UNCHANGED <<runVars, fn>>

ApplySearchUserActivity ==
    /\ fn.name = "search_user_activity" /\ ret.kind = "none"
    /\ ret' = FetchResult(search_user_activity(fn.resp, fn.start, fn.end))
    /\ UNCHANGED <<runVars, fn>>

NextFn ==
    \/ ApplyParseMonth
    \/ ApplyGetWeekRange
    \/ ApplyFetchClosedPrs
    \/ ApplyFetchClosedIssues
    \/ ApplySearchUserActivity

SpecFn == InitFn /\ [][NextFn]_vars

\* ------------------------------------------------------------------------
\* Vocabulary of the properties
\* ------------------------------------------------------------------------
Finished == pc \in {"done", "exited"}

\* text of a month "YYYY-MM" / of a day "YYYY-MM-DD" of the calendar
ValidMonthText(t) ==
    /\ Len(t) = 2
    /\ t[1] \in 1..9999
    /\ t[2] \in 1..12

ValidDayText(t) ==
    /\ Len(t) = 3
    /\ t[1] \in 1..9999
    /\ t[2] \in 1..12
    /\ t[3] \in 1..DaysInMonth(t[1], t[2])

Midnight(y, m, d) == [ord |-> Ymd2Ord(y, m, d), sec |-> 0]

\* a closedAt that is a closing date: not null, not empty, not the
\* "never closed" value 0001-01-01...
IsNever(ts) == ts.tag = "text" /\ SubSeq(ts.f, 1, 3) = <<1, 1, 1>>
HasClosingDate(it) == it.closedAt.tag = "text" /\ ~IsNever(it.closedAt)
HasCreationDate(it) == it.createdAt.tag = "text"

Instant(ts) ==
    [ord |-> Ymd2Ord(ts.f[1], ts.f[2], ts.f[3]),
     sec |-> ts.f[4] * 3600 + ts.f[5] * 60 + ts.f[6]]

Within(t, s, e) ==
    /\ (s.ord < t.ord \/ (s.ord = t.ord /\ s.sec <= t.sec))
    /\ (t.ord < e.ord \/ (t.ord = e.ord /\ t.sec < e.sec))

ClosedWithin(it, s, e) ==
    HasClosingDate(it) /\ Within(Instant(it.closedAt), s, e)

CreatedWithin(it, s, e) ==
    HasCreationDate(it) /\ Within(Instant(it.createdAt), s, e)

Numbers(items) == {items[i].number : i \in 1..Len(items)}

MonthlyFetch == fn.name \in {"fetch_closed_prs", "fetch_closed_issues"}
WeeklyFetch == fn.name = "search_user_activity"
Successful(resp) == resp.rc = 0 /\ resp.body = "list"

\* C1: a fetch that returns for a successful query returns exactly the items
\* closed in [start, end) (monthly) or created or closed in [start, end)
\* (weekly), in the order of the response
C1_FilterExact ==
    (ret.kind = "ok" /\ Successful(fn.resp)) =>
        /\ MonthlyFetch =>
              ret.value = SelectSeq(fn.resp.items,
                  LAMBDA it : ClosedWithin(it, fn.start, fn.end))
        /\ WeeklyFetch =>
              ret.value = SelectSeq(fn.resp.items,
                  LAMBDA it : \/ CreatedWithin(it, fn.start, fn.end)
                              \/ ClosedWithin(it, fn.start, fn.end))

\* C3: for a valid YYYY-MM, parse_month returns the first midnight of the
\* month and the first midnight of the next month, DaysInMonth days later;
\* for month 12 that is January 1 of the next year
C3_MonthRange ==
    (fn.name = "parse_month" /\ ret.kind # "none"
        /\ ValidMonthText(fn.arg.text)) =>
        LET y == fn.arg.text[1]
            m == fn.arg.text[2]
        IN /\ ret.kind = "ok"
           /\ ret.start = Midnight(y, m, 1)
           /\ ret.end.sec = 0
           /\ ret.end.ord - ret.start.ord = DaysInMonth(y, m)
           /\ m = 12 => ret.end.ord = DaysBeforeYear(y + 1) + 1

\* the Monday to Sunday week an ordinal lies in (ordinal 1 is a Monday)
WeekOf(ord) == (ord - 1) \div 7

\* C4: for a valid YYYY-MM-DD, get_week_range returns a Monday midnight, the
\* midnight 7 days later, the input day lies inside, and every other day of
\* the same week gives the same range
C4_WeekRange ==
    (fn.name = "get_week_range" /\ ret.kind # "none" /\ fn.arg.given
        /\ ValidDayText(fn.arg.text)) =>
        LET t == fn.arg.text
            day == Midnight(t[1], t[2], t[3])
        IN /\ ret.kind = "ok"
           /\ ret.start.sec = 0
           /\ ret.start.ord % 7 = 1
           /\ ret.end = [ord |-> ret.start.ord + 7, sec |-> 0]
           /\ Within(day, ret.start, ret.end)
           /\ \A a \in FnWeekArgs :
                 (ValidDayText(a.text) /\
                  WeekOf(Ymd2Ord(a.text[1], a.text[2], a.text[3]))
                      = WeekOf(day.ord)) =>
                     /\ get_week_range(a, fn.today).start = ret.start
                     /\ get_week_range(a, fn.today).end = ret.end

\* C5: without --week, the range is last week: every instant from last
\* Monday 00:00:00 through last Sunday 23:59:59 is inside, the instants of
\* the current week are outside, at whatever time of day the program runs
C5_LastWeek ==
    (fn.name = "get_week_range" /\ ret.kind # "none" /\ ~fn.arg.given) =>
        LET thisMonday == fn.today.ord - ((fn.today.ord - 1) % 7)
            lastMonday == thisMonday - 7
        IN /\ ret.kind = "ok"
           /\ ret.end = [ord |-> ret.start.ord + 7, sec |-> ret.start.sec]
           /\ Within([ord |-> lastMonday, sec |-> 0], ret.start, ret.end)
           /\ Within([ord |-> lastMonday + 6, sec |-> 86399],
                     ret.start, ret.end)
           /\ ~Within([ord |-> thisMonday, sec |-> 0], ret.start, ret.end)
           /\ ~Within(fn.today, ret.start, ret.end)

\* C6: an item whose closedAt is the "never closed" value is filtered
\* without an error and is never kept because of its closedAt: never by the
\* monthly filter, by the weekly filter only if its createdAt is in range
C6_NeverClosedExcluded ==
    (ret.kind # "none" /\ Successful(fn.resp)
        /\ (MonthlyFetch \/ WeeklyFetch)) =>
        /\ ret.kind = "raise" =>
              \E i \in 1..Len(fn.resp.items) :
                  \/ fn.resp.items[i].createdAt.tag = "other"
                  \/ fn.resp.items[i].closedAt.tag = "other"
        /\ \A i \in 1..Len(fn.resp.items) :
              LET it == fn.resp.items[i]
              IN (IsNever(it.closedAt) /\ it.number \in Numbers(ret.value))
                    => (WeeklyFetch /\ CreatedWithin(it, fn.start, fn.end))

\* ------------------------------------------------------------------------
\* Properties of whole runs
\* ------------------------------------------------------------------------
\* the date argument is not a month (monthly) / not a day (weekly)
Malformed ==
    /\ argv.given
    /\ IF prog = "monthly" THEN ~ValidMonthText(argv.text)
       ELSE ~ValidDayText(argv.text)

InvalidFormat == {"Invalid month format", "Invalid date format"}

ErrorMessages ==
    InvalidFormat \cup
    {"usage", "gh not installed or not authenticated",
     "no repositories configured", "Error fetching current user",
     "Error fetching PRs", "Error parsing PR data", "Error fetching issues",
     "Error parsing issue data", "Error searching", "Error parsing data"}

ReportOutput ==
    {"banner", "Fetching your activity", "Fetching data", "summary",
     "detail", "No activity found", "complete"}

Printed_(m) == \E i \in 1..Len(out) : out[i] = m

\* queries of the monthly loop, in the order they are made: query k is the
\* pull request list (k odd) or the issue list (k even) of repos[(k+1)/2]
RepoOf(k) == repos[(k + 1) \div 2]
IsPrQuery(k) == k % 2 = 1

\* the query was made and its result was stored (the run did not stop in it)
Completed(k) == k \in 1..Len(raw) /\ (uncaught = "none" \/ k < Len(raw))

Stored(k) ==
    IF IsPrQuery(k) THEN repo_data[RepoOf(k)].prs
    ELSE repo_data[RepoOf(k)].issues

\* what the fetch function returns for the response of query k
ReturnedBy(k) ==
    IF IsPrQuery(k)
    THEN fetch_closed_prs(raw[k], start_date, end_date).value
    ELSE fetch_closed_issues(raw[k], start_date, end_date).value

\* the list query k contributes: empty if the query failed
Contribution(k) == IF Failed(raw[k]) THEN <<>> ELSE ReturnedBy(k)

\* sum of the lengths of the lists returned by the non-failed pull request
\* (wantPrs) or issue queries among the queries 1..k
RECURSIVE SumReturned(_, _)
SumReturned(k, wantPrs) ==
    IF k = 0 THEN 0
    ELSE SumReturned(k - 1, wantPrs) +
         (IF IsPrQuery(k) = wantPrs /\ ~Failed(raw[k])
          THEN Len(ReturnedBy(k)) ELSE 0)

\* C2: in the monthly report a failing query (nonzero exit, unparseable
\* output) contributes an empty list and does not end the run; all queries
\* of all repositories are made; the printed totals are the sums over the
\* non-failed queries; the listing of a repository is made of what its own
\* two queries returned, whatever happened to the other queries
C2_PartialSuccess ==
    prog = "monthly" =>
        /\ Completed(Len(raw)) => Stored(Len(raw)) = Contribution(Len(raw))
        /\ (pc = "exited" /\ raw # <<>>) => ~Failed(raw[Len(raw)])
        /\ pc = "done" =>
              /\ Len(raw) = 2 * Len(repos)
              /\ \A k \in 1..Len(raw) :
                    calls[k + 1] = (IF IsPrQuery(k) THEN "gh pr list"
                                    ELSE "gh issue list")
              /\ summary[1] = SumReturned(Len(raw), TRUE)
              /\ summary[2] = SumReturned(Len(raw), FALSE)
              /\ summary[3] = summary[1] + summary[2]
              /\ \A i \in 1..Len(repos) :
                    LET ps == Contribution(2 * i - 1)
                        is == Contribution(2 * i)
                    IN IF ps = <<>> /\ is = <<>>
                       THEN \A j \in 1..Len(detail) :
                                detail[j].repo # repos[i]
                       ELSE \E j \in 1..Len(detail) :
                                detail[j] = Section(repos[i], ps, is)

\* a finished monthly run in which the first query failed and the listing
\* of another repository and the totals are not empty
C2_Witness ==
    /\ prog = "monthly" /\ pc = "done"
    /\ Len(repos) >= 2
    /\ Failed(raw[1])
    /\ \E j \in 1..Len(detail) :
          detail[j].repo = repos[2] /\ detail[j].prs # <<>>
    /\ summary[3] > 0

\* C7: once the program processes query responses, no exception leaves a
\* fetch function or main: an error exit carries status 1 and a message
C7_Guarded ==
    raw # <<>> =>
        /\ uncaught = "none"
        /\ pc = "exited" =>
              (exitcode = 1 /\ out # <<>> /\ out[Len(out)] \in ErrorMessages)

\* C8: with a malformed date argument no external client invocation is
\* made and no report output is printed, and the run ends with the
\* invalid-format message and a nonzero status
C8_UsageErrorFirst ==
    Malformed =>
        /\ calls = <<>>
        /\ \A i \in 1..Len(out) : out[i] \notin ReportOutput
        /\ Finished =>
              /\ exitcode \notin {0, NoExit}
              /\ \E i \in 1..Len(out) : out[i] \in InvalidFormat

\* C9: a run ends with status 0 or 1; 0 exactly when the report ran to
\* completion; 1 on a missing or unparseable date argument, on a missing or
\* unauthenticated client and on an empty repository configuration
C9_ExitCodes ==
    Finished =>
        /\ exitcode \in {0, 1}
        /\ exitcode = 0 <=> (pc = "done" /\ Printed_("complete"))
        /\ (Malformed \/ (prog = "monthly" /\ ~argv.given)) => exitcode = 1
        /\ gh # "ok" => exitcode = 1
        /\ (prog = "monthly" /\ repos = <<>>) => exitcode = 1

\* sections of the detail listing that show item it among their pull
\* requests (or issues)
PlacesOf(it, isPr) ==
    {<<j, k>> \in (1..Len(detail)) \X (1..Len(prs) + Len(issues)) :
        LET lst == IF isPr THEN detail[j].prs ELSE detail[j].issues
        IN k <= Len(lst) /\ lst[k] = it}

NonIncreasing(lst) ==
    \A k \in 1..Len(lst) - 1 :
        ~DtLess(Instant(lst[k].createdAt), Instant(lst[k + 1].createdAt))

\* C10: the weekly detail has one section per repository with an included
\* item, in ascending name order, its lists in non-increasing creation
\* time, every included item once and under its own repository; the
\* monthly detail has the non-empty repositories in configured order, each
\* with its items in the order the fetch returned them
C10_DetailOrder ==
    pc = "done" =>
        /\ prog = "weekly" =>
              /\ \A j \in 1..Len(detail) - 1 :
                    LexLess(detail[j].repo, detail[j + 1].repo)
              /\ {detail[j].repo : j \in 1..Len(detail)}
                    = RepoNames(prs) \cup RepoNames(issues)
              /\ \A j \in 1..Len(detail) :
                    /\ NonIncreasing(detail[j].prs)
                    /\ NonIncreasing(detail[j].issues)
                    /\ Len(detail[j].prs) + Len(detail[j].issues) > 0
                    /\ \A k \in 1..Len(detail[j].prs) :
                          \E i \in 1..Len(prs) : prs[i] = detail[j].prs[k]
                    /\ \A k \in 1..Len(detail[j].issues) :
                          \E i \in 1..Len(issues) :
                              issues[i] = detail[j].issues[k]
              /\ \A i \in 1..Len(prs) :
                    /\ Cardinality(PlacesOf(prs[i], TRUE)) = 1
                    /\ \A p \in PlacesOf(prs[i], TRUE) :
                          detail[p[1]].repo = prs[i].repository
              /\ \A i \in 1..Len(issues) :
                    /\ Cardinality(PlacesOf(issues[i], FALSE)) = 1
                    /\ \A p \in PlacesOf(issues[i], FALSE) :
                          detail[p[1]].repo = issues[i].repository
        /\ prog = "monthly" =>
              LET R == [k \in 1..Len(raw) |-> ReturnedBy(k)]
                  Listed == {i \in 1..Len(repos) :
                                R[2 * i - 1] # <<>> \/ R[2 * i] # <<>>}
              IN /\ Len(detail) = Cardinality(Listed)
                 /\ \A i \in Listed :
                       LET j == Cardinality({h \in Listed : h <= i})
                       IN detail[j] = Section(repos[i], R[2 * i - 1],
                                              R[2 * i])

\* a finished weekly run that shows two repositories and a pull request
\* list whose order differs from the order of the response
C10_Witness ==
    /\ prog = "weekly" /\ pc = "done"
    /\ Len(detail) >= 2
    /\ \E j \in 1..Len(detail) :
          /\ Len(detail[j].prs) = 2
          /\ detail[j].prs[1].number > detail[j].prs[2].number
          /\ detail[j].prs[1].createdAt # detail[j].prs[2].createdAt

=============================================================================
